---- MODULE Spec2Model ----
(***************************************************************************)
(* PEEV sale-commit protocol: recordSaleTransaction (data/sales.ts) run    *)
(* against the Firestore collections inventory, transactions, saleItems    *)
(* and users.  Each call is a process; every await of the code is a step.  *)
(* runTransaction is the optimistic transaction of the Firestore web SDK:  *)
(* reads record document versions, writes are staged and applied at commit *)
(* only if no read document changed, otherwise the closure is re-run.      *)
(***************************************************************************)
EXTENDS Integers, Sequences, FiniteSets, TLC

(* ---------------------------- bounds ----------------------------------- *)
\* units received per batch; requested quantities range up to it
MaxStock == 2
\* attempts runTransaction makes before it gives up (the SDK's default is 5)
MaxAttempts == 2
\* sales issued in one behaviour of SpecInput
MaxCalls == 2

(* ---------------------------- universe --------------------------------- *)
Calls == {"c1", "c2"}
NoUid == "none"
NoTeam == "none"
Uids == {"u1", "u2"}
MissingId == "b0"
Unset == <<>>
Line(id, q, p) == [inventoryId |-> id, quantitySold |-> q, pricePerItemCents |-> p]
\* a sale of one line, or of one unit of b1 followed by a second line
ListsOver(L) == {<<a>> : a \in L} \cup {<<Line("b1", 1, 2), b>> : b \in L}

\* what the Sales page submits: a positive quantity of a batch picked from a
\* list that may be stale (the batch sold out, deleted, or of another team)
SaleLines ==
  {Line("b1", q, 2) : q \in 1 .. MaxStock} \cup
  {Line(b, 1, 2) : b \in {"b2", "b3", MissingId}}

\* what the exported function accepts: any quantity, optional tax and discount
InputLines ==
  {Line("b1", q, p) : q \in (0 - 1) .. MaxStock, p \in {2, 3}} \cup
  {Line(b, 1, 2) : b \in {"b2", "b3", MissingId}}
Taxes == {Unset, <<1>>}
Discounts == {Unset, <<5>>}

VARIABLES inventory, transactions, saleItems, users, call, nextId, started,
          fetched, report, salesPage, inventoryPage, teams, teamOp, teamCalls,
          authState

vars == <<inventory, transactions, saleItems, users, call, nextId, started,
          fetched, report, salesPage, inventoryPage, teams, teamOp, teamCalls,
          authState>>
db == <<inventory, transactions, saleItems>>
\* the teams collection and the team-management calls under way
teamVars == <<teams, teamOp, teamCalls>>
\* the state around the sale commit: the query results a report page holds
\* and what it computed from them, the Sales and Inventory pages, the teams
aside == <<fetched, report, salesPage, inventoryPage, teamVars, authState>>

(* ---------------------------- helpers ---------------------------------- *)
\* data.tax || 0, data.discount || 0 : an unset (or zero) amount counts as 0
OrZero(x) == IF x = <<>> THEN 0 ELSE x[1]
\* tax || null, discount || null : zero is stored as null
OrNull(n) == IF n = 0 THEN <<>> ELSE <<n>>

NoError == [kind |-> "", inventoryId |-> "", available |-> 0, requested |-> 0]
Err(k) == [NoError EXCEPT !.kind = k]
NoReads == [b \in {} |-> 0]

IdleCall ==
  [pc |-> "Idle", uid |-> NoUid, items |-> <<>>, tax |-> <<>>, discount |-> <<>>,
   teamId |-> NoTeam, attempt |-> 0, idx |-> 0, readVersions |-> NoReads,
   inventoryUpdates |-> <<>>, subtotal |-> 0, error |-> NoError]

Abort(c, e) == call' = [call EXCEPT ![c].pc = "Aborted", ![c].error = e]

\* faulty variant: the retry keeps the reads, the staged debits and the subtotal of the
\* attempt before (locals declared outside the closure)
FreshAttempt_KeepsLocals(r, n) ==
  [r EXCEPT !.pc = "Validating", !.attempt = n, !.idx = 1]

\* a fresh run of the runTransaction closure: locals of the closure start over
FreshAttempt(r, n) ==
  [r EXCEPT !.pc = "Validating", !.attempt = n, !.idx = 1, !.readVersions = NoReads,
            !.inventoryUpdates = <<>>, !.subtotal = 0]

\* faulty variant: the conflict is swallowed and the call never settles
RetryOrFail_NeverSettles(c) == UNCHANGED call

\* the SDK's handling of a retryable (aborted / failed-precondition) error
RetryOrFail(c) ==
  IF call[c].attempt < MaxAttempts
  THEN call' = [call EXCEPT ![c] = FreshAttempt(call[c], call[c].attempt + 1)]
  ELSE Abort(c, Err("Conflict"))

\* nothing fetched, nothing computed
NoData ==
  [inventoryItems |-> <<>>, shipments |-> <<>>, saleItems |-> <<>>, legacySales |-> <<>>,
   transactions |-> <<>>, startDate |-> 0, endDate |-> 0, now |-> 0]
NoReport == [op |-> "none"]
\* the Sales page before its queries returned, no delete under way
ClosedSalesPage ==
  [transactionsData |-> {}, saleItemsData |-> {}, pc |-> "idle", transactionId |-> 0,
   pending |-> {}]
\* the teams collection as far as the sale commit needs it: the teams exist,
\* nobody is managing members
IdleTeamOp ==
  [pc |-> "idle", kind |-> "", target |-> "", teamId |-> NoTeam, existingMembers |-> {},
   message |-> ""]
NoTeams ==
  /\ teams = [t \in {} |-> 0]
  /\ teamOp = [u \in {} |-> 0]
  /\ teamCalls = 0
\* AuthProvider as mounted: nobody signed in, the listener not yet called
Mounted ==
  [currentUser |-> NoUid, notified |-> FALSE, user |-> NoUid, closureUser |-> NoUid,
   userProfile |-> <<>>, loading |-> TRUE, needsOnboarding |-> FALSE, fetches |-> {}]
\* the Inventory page before its query returned
ClosedInventoryPage ==
  [data |-> [b \in {} |-> 0], edits |-> 0, snack |-> "", deleting |-> ""]

(* ---------------------------- initial state ---------------------------- *)
\* batches as received: b1 holds MaxStock units, b2 and b3 a single unit
Received(b) == IF b = "b1" THEN MaxStock ELSE 1

InitStore ==
  /\ inventory =
       [b \in {"b1", "b2", "b3"} |->
          [teamId |-> IF b = "b3" THEN "t2" ELSE "t1",
           initialQuantity |-> Received(b), currentStock |-> Received(b), updateTime |-> 0]]
  /\ transactions = {}
  /\ saleItems = {}
  /\ call = [c \in Calls |-> IdleCall]
  /\ nextId = 1
  /\ started = 0

InitSale ==
  /\ InitStore
  /\ users = [u \in Uids |-> [teamId |-> IF u = "u1" THEN "t1" ELSE NoTeam]]

Init ==
  /\ InitSale
  /\ fetched = NoData
  /\ report = NoReport
  /\ salesPage = ClosedSalesPage
  /\ inventoryPage = ClosedInventoryPage
  /\ NoTeams
  /\ authState = Mounted

(* ---------------------------- recordSaleTransaction -------------------- *)
\* entry: the auth.currentUser check, the empty-items check and the awaited
\* getUserProfile read; on success the first run of the closure begins
Start(c, uid, items, tax, discount) ==
  /\ call[c].pc = "Idle"
  /\ IF uid = NoUid
     THEN call' = [call EXCEPT ![c] = [IdleCall EXCEPT !.pc = "Aborted", !.error = Err("NotAuthenticated")]]
     ELSE IF Len(items) = 0
     THEN call' = [call EXCEPT ![c] =
            [IdleCall EXCEPT !.pc = "Aborted", !.uid = uid, !.error = Err("EmptyTransaction")]]
     ELSE IF users[uid].teamId = NoTeam
     THEN call' = [call EXCEPT ![c] =
            [IdleCall EXCEPT !.pc = "Aborted", !.uid = uid, !.error = Err("NoTeam")]]
     ELSE call' = [call EXCEPT ![c] =
            FreshAttempt([IdleCall EXCEPT !.uid = uid, !.items = items, !.tax = tax,
                                          !.discount = discount,
                                          !.teamId = users[uid].teamId], 1)]
  /\ UNCHANGED <<inventory, transactions, saleItems, users, nextId>>

\* faulty variant: the ownership check is missing
OwnTeam_Unchecked(inv, r) == TRUE

\* "Check team ownership": the batch belongs to the caller's team
OwnTeam(inv, r) == inv.teamId = r.teamId

\* faulty variant: the stock check lets a sale of one unit too many through
SufficientStock_OffByOne(inv, item) == ~(inv.currentStock + 1 < item.quantitySold)

\* "Check sufficient stock": the negation of currentStock < quantitySold
SufficientStock(inv, item) == ~(inv.currentStock < item.quantitySold)

\* the record pushed on inventoryUpdates for a line that passed
StagedUpdate(id, inv, item) ==
  [ref |-> id, currentStock |-> inv.currentStock,
   newStock |-> inv.currentStock - item.quantitySold]

\* the SDK refuses a second read of a document whose version moved meanwhile
VersionMoved(r, id) ==
  id \in DOMAIN r.readVersions /\ r.readVersions[id] # inventory[id].updateTime

\* faulty variant: a line that passes is debited at once (updateDoc inside the loop)
\* instead of being staged for the commit
ReadLine_EagerDebit(c) ==
  /\ call[c].pc = "Validating"
  /\ LET r == call[c]
         item == r.items[r.idx]
         id == item.inventoryId
         passes == /\ id \in DOMAIN inventory
                   /\ ~VersionMoved(r, id)
                   /\ OwnTeam(inventory[id], r)
                   /\ SufficientStock(inventory[id], item)
     IN /\ IF id \notin DOMAIN inventory
           THEN Abort(c, [Err("NotFound") EXCEPT !.inventoryId = id])
           ELSE IF VersionMoved(r, id)
           THEN RetryOrFail(c)
           ELSE IF ~OwnTeam(inventory[id], r)
           THEN Abort(c, Err("NotAuthorized"))
           ELSE IF ~SufficientStock(inventory[id], item)
           THEN Abort(c, [Err("InsufficientStock") EXCEPT
                            !.available = inventory[id].currentStock,
                            !.requested = item.quantitySold])
           ELSE call' = [call EXCEPT ![c] =
                  [r EXCEPT
                     !.readVersions = (id :> inventory[id].updateTime) @@ @,
                     !.inventoryUpdates = Append(@, StagedUpdate(id, inventory[id], item)),
                     !.subtotal = @ + item.pricePerItemCents * item.quantitySold,
                     !.idx = @ + 1,
                     !.pc = IF r.idx = Len(r.items) THEN "Committing" ELSE "Validating"]]
        /\ inventory' =
             IF passes
             THEN [inventory EXCEPT ![id].currentStock = @ - item.quantitySold]
             ELSE inventory
  /\ UNCHANGED <<transactions, saleItems, users, nextId, started>>

\* faulty variant: the loop walks the lines from the last to the first
CurrentItem_Backwards(r) == r.items[Len(r.items) + 1 - r.idx]

\* for (const item of data.items): the lines are taken in input order
CurrentItem(r) == r.items[r.idx]

\* one iteration of the validation loop: transaction.get and the three checks;
\* nothing is written, the debit is only recorded in inventoryUpdates
ReadLine(c) ==
  /\ call[c].pc = "Validating"
  /\ LET r == call[c]
         item == CurrentItem(r)
         id == item.inventoryId
     IN IF id \notin DOMAIN inventory
        THEN Abort(c, [Err("NotFound") EXCEPT !.inventoryId = id])
        ELSE IF VersionMoved(r, id)
        THEN RetryOrFail(c)
        ELSE IF ~OwnTeam(inventory[id], r)
        THEN Abort(c, Err("NotAuthorized"))
        ELSE IF ~SufficientStock(inventory[id], item)
        THEN Abort(c, [Err("InsufficientStock") EXCEPT
                         !.available = inventory[id].currentStock,
                         !.requested = item.quantitySold])
        ELSE call' = [call EXCEPT ![c] =
               [r EXCEPT
                  !.readVersions = (id :> inventory[id].updateTime) @@ @,
                  !.inventoryUpdates = Append(@, StagedUpdate(id, inventory[id], item)),
                  !.subtotal = @ + item.pricePerItemCents * item.quantitySold,
                  !.idx = @ + 1,
                  !.pc = IF r.idx = Len(r.items) THEN "Committing" ELSE "Validating"]]
  /\ UNCHANGED <<inventory, transactions, saleItems, users, nextId, started>>

\* faulty variant: the total leaves the tax out
TransactionDoc_NoTax(r, id) ==
  LET tax == OrZero(r.tax)
      discount == OrZero(r.discount)
  IN [id |-> id, subtotal |-> r.subtotal, tax |-> OrNull(tax), discount |-> OrNull(discount),
      total |-> r.subtotal - discount, teamId |-> r.teamId]

\* the documents staged by steps 2-5 of the closure
TransactionDoc(r, id) ==
  LET tax == OrZero(r.tax)
      discount == OrZero(r.discount)
  IN [id |-> id, subtotal |-> r.subtotal, tax |-> OrNull(tax), discount |-> OrNull(discount),
      total |-> r.subtotal + tax - discount, teamId |-> r.teamId]

\* faulty variant: every line of a sale is written to the same document
SaleItemDoc_SameRef(r, txId, i) ==
  [id |-> txId + 1, transactionId |-> txId, inventoryId |-> r.items[1].inventoryId,
   quantitySold |-> r.items[1].quantitySold, pricePerItem |-> r.items[1].pricePerItemCents,
   lineTotal |-> r.items[1].pricePerItemCents * r.items[1].quantitySold, teamId |-> r.teamId]

SaleItemDoc(r, txId, i) ==
  [id |-> txId + i, transactionId |-> txId, inventoryId |-> r.items[i].inventoryId,
   quantitySold |-> r.items[i].quantitySold, pricePerItem |-> r.items[i].pricePerItemCents,
   lineTotal |-> r.items[i].pricePerItemCents * r.items[i].quantitySold, teamId |-> r.teamId]

\* staged transaction.update calls on one document apply in order: the last one stands
StockAfter(updates, b, stock) ==
  LET hits == {i \in 1 .. Len(updates) : updates[i].ref = b}
  IN IF hits = {} THEN stock
     ELSE updates[CHOOSE i \in hits : \A j \in hits : j <= i].newStock

Touched(updates) == {updates[i].ref : i \in 1 .. Len(updates)}

\* faulty variant: the commit does not verify the versions it read
Conflicts_Unverified(r) == FALSE

\* a read document changed (or vanished) since this attempt read it
Conflicts(r) ==
  \E b \in DOMAIN r.readVersions :
     b \notin DOMAIN inventory \/ inventory[b].updateTime # r.readVersions[b]

\* end of the closure: the staged writes commit atomically or the attempt is retried
Commit(c) ==
  /\ call[c].pc = "Committing"
  /\ LET r == call[c]
     IN IF Conflicts(r)
        THEN /\ RetryOrFail(c)
             /\ UNCHANGED <<inventory, transactions, saleItems, nextId>>
        ELSE /\ transactions' = transactions \cup {TransactionDoc(r, nextId)}
             /\ saleItems' = saleItems \cup {SaleItemDoc(r, nextId, i) : i \in 1 .. Len(r.items)}
             /\ inventory' =
                  [b \in DOMAIN inventory |->
                     IF b \in Touched(r.inventoryUpdates)
                     THEN [inventory[b] EXCEPT
                             !.currentStock = StockAfter(r.inventoryUpdates, b, @),
                             !.updateTime = @ + 1]
                     ELSE inventory[b]]
             /\ nextId' = nextId + 1 + Len(r.items)
             /\ call' = [call EXCEPT ![c].pc = "Committed"]
  /\ UNCHANGED <<users, started>>

\* the promise has settled; the caller may issue another sale
Return(c) ==
  /\ call[c].pc \in {"Committed", "Aborted"}
  /\ call' = [call EXCEPT ![c] = IdleCall]
  /\ UNCHANGED <<inventory, transactions, saleItems, users, nextId, started>>

\* two sessions of one team selling concurrently
StartSale ==
  /\ \E c \in Calls, items \in ListsOver(SaleLines) : Start(c, "u1", items, Unset, Unset)
  /\ UNCHANGED <<started, aside>>
ReadLineAny == (\E c \in Calls : ReadLine(c)) /\ UNCHANGED aside
CommitAny == (\E c \in Calls : Commit(c)) /\ UNCHANGED aside
ReturnAny == (\E c \in Calls : Return(c)) /\ UNCHANGED aside

Next == StartSale \/ ReadLineAny \/ CommitAny \/ ReturnAny

Spec == Init /\ [][Next]_vars

\* two sessions each selling some units of b1, once
StartRace ==
  /\ \E c \in Calls, q \in 1 .. MaxStock, p \in {2, 3} :
        Start(c, "u1", <<Line("b1", q, p)>>, Unset, Unset)
  /\ UNCHANGED <<started, aside>>

NextRace == StartRace \/ ReadLineAny \/ CommitAny

SpecRace == Init /\ [][NextRace]_vars

\* one session calling the function with arbitrary arguments
StartInput ==
  /\ started < MaxCalls
  /\ started' = started + 1
  /\ \E uid \in Uids \cup {NoUid}, items \in {<<>>} \cup ListsOver(InputLines),
        tax \in Taxes, discount \in Discounts :
        Start("c1", uid, items, tax, discount)
  /\ UNCHANGED aside

NextInput == StartInput \/ ReadLineAny \/ CommitAny \/ ReturnAny

SpecInput == Init /\ [][NextInput]_vars

TypeOK ==
  /\ \A b \in DOMAIN inventory : inventory[b].updateTime \in Nat
  /\ \A c \in Calls : call[c].pc \in {"Idle", "Validating", "Committing", "Committed", "Aborted"}
  /\ started \in 0 .. MaxCalls


(* ======================= properties of the sale commit ================= *)
Terminal(c) == call[c].pc \in {"Committed", "Aborted"}
Committed(c) == call[c].pc = "Committed"
AbortedWith(c, kinds) == call[c].pc = "Aborted" /\ call[c].error.kind \in kinds

\* C1: after any committed sales every batch has
\* 0 <= currentStock <= initialQuantity.
C1_StockBounds ==
  \A b \in DOMAIN inventory :
     /\ 0 <= inventory[b].currentStock
     /\ inventory[b].currentStock <= inventory[b].initialQuantity

\* two single-line sales of b1 that the received stock covers one at a time
\* but not together
Racing(c, d) ==
  /\ c # d
  /\ Len(call[c].items) = 1 /\ Len(call[d].items) = 1
  /\ call[c].items[1].inventoryId = "b1" /\ call[d].items[1].inventoryId = "b1"
  /\ call[c].items[1].quantitySold <= MaxStock
  /\ call[d].items[1].quantitySold <= MaxStock
  /\ call[c].items[1].quantitySold + call[d].items[1].quantitySold > MaxStock

\* C2: of two concurrent sales of the same batch that it can satisfy alone but
\* not together, once both have ended exactly one is Committed and the other
\* is Aborted with insufficient stock or conflict; both never commit.
C2_ExactlyOneCommits ==
  \A c, d \in Calls :
     Racing(c, d) =>
        /\ ~(Committed(c) /\ Committed(d))
        /\ (Terminal(c) /\ Terminal(d)) =>
              \/ Committed(c) /\ AbortedWith(d, {"InsufficientStock", "Conflict"})
              \/ Committed(d) /\ AbortedWith(c, {"InsufficientStock", "Conflict"})

\* the loser read the stock before the winner committed, lost the commit, re-read
C2_Witness ==
  \E c, d \in Calls :
     /\ Racing(c, d)
     /\ Committed(c)
     /\ AbortedWith(d, {"InsufficientStock"})
     /\ call[d].attempt = 2
     /\ call[c].items[1].quantitySold = MaxStock


(* steps of one call *)
Steps(c) == call'[c] # call[c]
CommitStep(c) == call[c].pc = "Committing" /\ call'[c].pc = "Committed"
Persisted == <<inventory, transactions, saleItems>>
LineAt(c) == call[c].items[call[c].idx]
ValidationErrors == {"NotFound", "NotAuthorized", "InsufficientStock"}

\* whether line i of the call would be refused against the stored batches
LineFails(c, i) ==
  LET item == call[c].items[i]
  IN \/ item.inventoryId \notin DOMAIN inventory
     \/ inventory[item.inventoryId].teamId # users[call[c].uid].teamId
     \/ inventory[item.inventoryId].currentStock < item.quantitySold

\* C3: a call with a line that fails validation persists nothing: no step of
\* the validation, passing lines included, writes a document, a call that
\* aborted writes nothing afterwards, and a commit happens only when no line
\* of the call fails.
C3_NoPartialSale ==
  [][\A c \in Calls :
       /\ (call[c].pc \in {"Validating", "Aborted"} /\ Steps(c)) =>
             Persisted' = Persisted
       /\ (call[c].pc = "Aborted" /\ Steps(c)) => call'[c].pc = "Idle"
       /\ CommitStep(c) => \A i \in 1 .. Len(call[c].items) : ~LineFails(c, i)]_vars

\* the second line of a sale was refused after the first had passed
C3_Witness ==
  \E c \in Calls :
     /\ AbortedWith(c, {"NotFound"})
     /\ call[c].idx = 2
     /\ Len(call[c].inventoryUpdates) = 1
     /\ inventory["b1"].currentStock = MaxStock

\* the call is about to run the stock check of its current line
AtStockCheck(c) ==
  /\ call[c].pc = "Validating"
  /\ LineAt(c).inventoryId \in DOMAIN inventory
  /\ ~VersionMoved(call[c], LineAt(c).inventoryId)
  /\ inventory[LineAt(c).inventoryId].teamId = call[c].teamId

RECURSIVE SumLineTotals(_)
SumLineTotals(S) ==
  IF S = {} THEN 0
  ELSE LET s == CHOOSE x \in S : TRUE IN s.lineTotal + SumLineTotals(S \ {s})

LinesOf(t) == {s \in saleItems : s.transactionId = t.id}

\* C5: for every committed transaction each line has
\* lineTotal = quantitySold * pricePerItem, subtotal is the sum of its lines'
\* lineTotal, and total = subtotal + tax - discount with unset counted as 0.
C5_Totals ==
  \A t \in transactions :
     /\ \A s \in LinesOf(t) : s.lineTotal = s.quantitySold * s.pricePerItem
     /\ t.subtotal = SumLineTotals(LinesOf(t))
     /\ t.total = t.subtotal + OrZero(t.tax) - OrZero(t.discount)

\* a two-line sale with tax and no discount, lines of different totals
C5_Witness ==
  \E t \in transactions :
     /\ t.tax # Unset /\ t.discount = Unset
     /\ \E s1, s2 \in LinesOf(t) : s1.lineTotal # s2.lineTotal /\ s1.lineTotal > 0 /\ s2.lineTotal > 0

\* C6: a line with quantity <= 0 is rejected before any write: no call gets
\* past validation with such a line and no sale line with such a quantity is
\* ever stored.
C6_RejectsNonPositive ==
  /\ \A c \in Calls :
        call[c].pc \in {"Committing", "Committed"} =>
           \A i \in 1 .. Len(call[c].items) : call[c].items[i].quantitySold > 0
  /\ \A s \in saleItems : s.quantitySold > 0

\* C7: a discount above subtotal + tax is rejected, so no stored transaction
\* has a negative total.
C7_NoNegativeTotal ==
  /\ \A c \in Calls :
        Committed(c) => OrZero(call[c].discount) <= call[c].subtotal + OrZero(call[c].tax)
  /\ \A t \in transactions : t.total >= 0

\* C8: a line on a batch of another team makes the call fail with the
\* not-authorized error and nothing is written; a commit debits only batches
\* of the caller's team and stamps the transaction and its lines with it.
C8_TeamIsolation ==
  [][\A c \in Calls :
       /\ (/\ call[c].pc = "Validating"
           /\ LineAt(c).inventoryId \in DOMAIN inventory
           /\ inventory[LineAt(c).inventoryId].teamId # users[call[c].uid].teamId
           /\ Steps(c)) =>
             /\ call'[c].pc = "Aborted"
             /\ call'[c].error.kind = "NotAuthorized"
             /\ Persisted' = Persisted
       /\ CommitStep(c) =>
             /\ \A b \in DOMAIN inventory :
                   inventory'[b] # inventory[b] =>
                      inventory[b].teamId = users[call[c].uid].teamId
             /\ \A t \in transactions' \ transactions : t.teamId = users[call[c].uid].teamId
             /\ \A s \in saleItems' \ saleItems : s.teamId = users[call[c].uid].teamId]_vars

\* a sale was refused on its second line, a batch of the other team, while
\* sales of the caller's own team had been committed
C8_Witness ==
  \E c \in Calls :
     /\ AbortedWith(c, {"NotAuthorized"})
     /\ call[c].idx = 2
     /\ transactions # {}
     /\ inventory["b3"].currentStock = inventory["b3"].initialQuantity

\* C9: a conflict re-runs the closure from the top (no reads, no staged
\* debits, subtotal 0) and writes nothing; what a retried call commits was
\* computed from the values stored at the commit; after MaxAttempts
\* attempts the call fails with the conflict error, nothing written.
C9_RetryFromTop ==
  [][\A c \in Calls :
       /\ (call[c].attempt >= 1 /\ call'[c].attempt = call[c].attempt + 1) =>
             /\ call'[c].pc = "Validating" /\ call'[c].idx = 1
             /\ call'[c].inventoryUpdates = <<>>
             /\ call'[c].readVersions = NoReads
             /\ call'[c].subtotal = 0
             /\ call'[c].attempt <= MaxAttempts
             /\ Persisted' = Persisted
       /\ CommitStep(c) =>
             /\ Len(call[c].inventoryUpdates) = Len(call[c].items)
             /\ \A i \in 1 .. Len(call[c].inventoryUpdates) :
                   LET u == call[c].inventoryUpdates[i]
                   IN /\ u.ref = call[c].items[i].inventoryId
                      /\ u.currentStock = inventory[u.ref].currentStock
       /\ (Steps(c) /\ call'[c].pc = "Aborted" /\ call'[c].error.kind = "Conflict") =>
             /\ call[c].attempt = MaxAttempts
             /\ Persisted' = Persisted]_vars

\* a call used up its attempts while the other session committed sales
C9_Witness ==
  \E c \in Calls :
     /\ AbortedWith(c, {"Conflict"})
     /\ call[c].attempt = MaxAttempts
     /\ Cardinality(transactions) >= MaxAttempts

\* C10: a commit of n lines adds, in one step, exactly one transaction and
\* exactly n saleItems of that transaction, one per input line, and sets the
\* currentStock of every referenced batch; other batches and all earlier
\* transactions and saleItems are unchanged, and nothing else writes.
C10_CommitFrame ==
  [][/\ \A c \in Calls :
          CommitStep(c) =>
             LET items == call[c].items
                 newT == transactions' \ transactions
                 newS == saleItems' \ saleItems
                 refs == {items[i].inventoryId : i \in 1 .. Len(items)}
             IN /\ transactions \subseteq transactions'
                /\ saleItems \subseteq saleItems'
                /\ Cardinality(newT) = 1
                /\ \A t \in newT : \A u \in transactions : u.id # t.id
                /\ Cardinality(newS) = Len(items)
                /\ Cardinality({s.id : s \in saleItems'}) = Cardinality(saleItems')
                /\ \A t \in newT : \A s \in newS : s.transactionId = t.id
                /\ \A i \in 1 .. Len(items) :
                      \E s \in newS :
                         /\ s.inventoryId = items[i].inventoryId
                         /\ s.quantitySold = items[i].quantitySold
                         /\ s.pricePerItem = items[i].pricePerItemCents
                /\ \A b \in DOMAIN inventory :
                      IF b \in refs
                      THEN /\ \E i \in 1 .. Len(call[c].inventoryUpdates) :
                                 /\ call[c].inventoryUpdates[i].ref = b
                                 /\ inventory'[b].currentStock =
                                       call[c].inventoryUpdates[i].newStock
                           /\ inventory'[b].currentStock # inventory[b].currentStock
                           /\ inventory'[b].teamId = inventory[b].teamId
                           /\ inventory'[b].initialQuantity = inventory[b].initialQuantity
                      ELSE inventory'[b] = inventory[b]
     /\ Persisted' # Persisted => \E c \in Calls : CommitStep(c)]_vars

\* a sale of two batches committed after an earlier sale
C10_Witness ==
  \E c \in Calls :
     /\ Committed(c)
     /\ Len(call[c].items) = 2
     /\ call[c].items[1].inventoryId # call[c].items[2].inventoryId
     /\ Cardinality(transactions) = 2
     /\ Cardinality(saleItems) = 3


\* the lines of the call that the stored batches refuse
FailingLines(c) == {i \in 1 .. Len(call[c].items) : LineFails(c, i)}

\* the error the three checks of the loop give for one line
ErrorOfLine(c, i) ==
  LET item == call[c].items[i]
      id == item.inventoryId
  IN IF id \notin DOMAIN inventory THEN [Err("NotFound") EXCEPT !.inventoryId = id]
     ELSE IF inventory[id].teamId # users[call[c].uid].teamId THEN Err("NotAuthorized")
     ELSE [Err("InsufficientStock") EXCEPT !.available = inventory[id].currentStock,
                                           !.requested = item.quantitySold]

\* C21: a call that ends with a validation error ends with the error of its
\* failing line of lowest input index; the error is a function of the input
\* lines and the stored batches, so it is the same on every run.
C21_FirstFailingLine ==
  \A c \in Calls :
     AbortedWith(c, ValidationErrors) =>
        /\ FailingLines(c) # {}
        /\ \A j \in FailingLines(c) : call[c].idx <= j
        /\ call[c].idx \in FailingLines(c)
        /\ call[c].error = ErrorOfLine(c, call[c].idx)

\* both lines of a sale fail, each with another error: b1 is sold out and
\* the second line names a batch that does not exist
C21_Witness ==
  \E c \in Calls :
     /\ AbortedWith(c, {"InsufficientStock"})
     /\ FailingLines(c) = {1, 2}
     /\ ErrorOfLine(c, 2).kind = "NotFound"
     /\ call[c].idx = 1

RECURSIVE SumQuantitySold(_)
SumQuantitySold(S) ==
  IF S = {} THEN 0
  ELSE LET s == CHOOSE x \in S : TRUE IN s.quantitySold + SumQuantitySold(S \ {s})

\* C25: with sales as the only writers of the batches, for every batch
\* initialQuantity - currentStock is the sum of quantitySold over the stored
\* sale lines of that batch, also when one sale names the batch in two lines.
C25_UnitConservation ==
  \A b \in DOMAIN inventory :
     inventory[b].initialQuantity - inventory[b].currentStock =
        SumQuantitySold({s \in saleItems : s.inventoryId = b})

(* ======================= cost basis and reports ======================== *)
(* utils/cogs.ts in its two versions: the direct one (unit cost from the   *)
(* batch's own purchase) and the pooled one (weighted average cost of the  *)
(* shipment).  Both are pure functions of the lists a page has fetched.    *)
(* A quotient is kept as an exact fraction in lowest terms; the rounding   *)
(* of IEEE doubles is not modelled.                                        *)
(* ----------------------------------------------------------------------- *)
\* latest instant of the calendar the sale dates and windows are drawn from
MaxDate == 3

RECURSIVE Gcd(_, _)
Gcd(a, b) == IF b = 0 THEN a ELSE Gcd(b, a % b)
\* n / d, for d > 0
Frac(n, d) == LET g == Gcd(n, d) IN [num |-> n \div g, den |-> d \div g]
Whole(n) == [num |-> n, den |-> 1]
\* unitCost * quantitySold
Times(x, k) == Frac(x.num * k, x.den)
\* totalCOGS += itemCOGS
Plus(x, y) == Frac(x.num * y.den + y.num * x.den, x.den * y.den)

Batch(id, cost, pq, upp, iq, sh) ==
  [id |-> id, totalCost |-> cost, purchaseQuantity |-> pq, unitsPerPack |-> upp,
   initialQuantity |-> iq, shipmentId |-> sh]
SaleItem(id, tx, b, q, p) ==
  [id |-> id, transactionId |-> tx, inventoryId |-> b, quantitySold |-> q,
   pricePerItem |-> p, lineTotal |-> p * q]
LegacySale(id, b, q, p, d) ==
  [id |-> id, inventoryId |-> b, quantitySold |-> q, pricePerItem |-> p, saleDate |-> <<d>>]
\* a transaction document as the commit writes it, with its server timestamp
Transaction(id, subtotal, tax, discount, d) ==
  ("saleDate" :> <<d>>) @@
  TransactionDoc([subtotal |-> subtotal, tax |-> tax, discount |-> discount, teamId |-> "t1"], id)

\* Array.prototype.find on the id: the index of the first match, 0 if none
FindById(list, id) ==
  LET hits == {i \in 1 .. Len(list) : list[i].id = id}
  IN IF hits = {} THEN 0 ELSE CHOOSE i \in hits : \A j \in hits : i <= j

\* faulty variant: the cost is spread over the packs, not over the units
calculateInventoryUnitCost_PerPack(inv) ==
  LET purchaseQuantity == IF OrZero(inv.purchaseQuantity) = 0 THEN 1 ELSE inv.purchaseQuantity[1]
  IN Frac(inv.totalCost, purchaseQuantity)

calculateInventoryUnitCost(inv) ==
  LET totalCost == inv.totalCost
      purchaseQuantity == IF OrZero(inv.purchaseQuantity) = 0 THEN 1 ELSE inv.purchaseQuantity[1]
      unitsPerPack == IF OrZero(inv.unitsPerPack) = 0 THEN inv.initialQuantity
                      ELSE inv.unitsPerPack[1]
      totalUnits == purchaseQuantity * unitsPerPack
  IN IF totalUnits = 0 THEN Whole(0) ELSE Frac(totalCost, totalUnits)

RECURSIVE SumInitialQuantity(_)
SumInitialQuantity(list) ==
  IF list = <<>> THEN 0 ELSE Head(list).initialQuantity + SumInitialQuantity(Tail(list))

\* faulty variant: the cost is spread over every batch the page holds
calculateShipmentWAC_AllBatches(shipment, inventoryItems) ==
  LET unitsReceived == SumInitialQuantity(inventoryItems)
  IN IF unitsReceived = 0 THEN Whole(0) ELSE Frac(shipment.totalCost, unitsReceived)

calculateShipmentWAC(shipment, inventoryItems) ==
  LET shipmentInventory == SelectSeq(inventoryItems, LAMBDA inv : inv.shipmentId = shipment.id)
      unitsReceived == SumInitialQuantity(shipmentInventory)
  IN IF unitsReceived = 0 THEN Whole(0) ELSE Frac(shipment.totalCost, unitsReceived)

NoCOGS == [totalCOGS |-> Whole(0), itemizedCOGS |-> <<>>]

\* faulty variant: a record whose batch is gone ends the loop (a break where
\* the code returns from the callback)
RECURSIVE DirectCOGS_StopsAtMissing(_, _, _, _)
DirectCOGS_StopsAtMissing(records, inventoryItems, i, acc) ==
  IF i > Len(records) THEN acc
  ELSE LET item == records[i]
           k == FindById(inventoryItems, item.inventoryId)
       IN IF k = 0 THEN acc
          ELSE LET unitCost == calculateInventoryUnitCost(inventoryItems[k])
                   itemCOGS == Times(unitCost, item.quantitySold)
               IN DirectCOGS_StopsAtMissing(records, inventoryItems, i + 1,
                    [totalCOGS |-> Plus(acc.totalCOGS, itemCOGS),
                     itemizedCOGS |->
                       Append(acc.itemizedCOGS,
                              [itemId |-> item.id, inventoryId |-> inventoryItems[k].id,
                               quantitySold |-> item.quantitySold, unitCost |-> unitCost,
                               itemCOGS |-> itemCOGS])])

\* the forEach of the direct calculateSaleItemsCOGS / calculateLegacySalesCOGS,
\* from record i on, with the totals so far
RECURSIVE DirectCOGS(_, _, _, _)
DirectCOGS(records, inventoryItems, i, acc) ==
  IF i > Len(records) THEN acc
  ELSE LET item == records[i]
           k == FindById(inventoryItems, item.inventoryId)
       IN IF k = 0 THEN DirectCOGS(records, inventoryItems, i + 1, acc)
          ELSE LET unitCost == calculateInventoryUnitCost(inventoryItems[k])
                   itemCOGS == Times(unitCost, item.quantitySold)
               IN DirectCOGS(records, inventoryItems, i + 1,
                    [totalCOGS |-> Plus(acc.totalCOGS, itemCOGS),
                     itemizedCOGS |->
                       Append(acc.itemizedCOGS,
                              [itemId |-> item.id, inventoryId |-> inventoryItems[k].id,
                               quantitySold |-> item.quantitySold, unitCost |-> unitCost,
                               itemCOGS |-> itemCOGS])])

calculateSaleItemsCOGS(items, inventoryItems) == DirectCOGS(items, inventoryItems, 1, NoCOGS)
calculateLegacySalesCOGS(legacySales, inventoryItems) ==
  DirectCOGS(legacySales, inventoryItems, 1, NoCOGS)

\* faulty variant: the legacy sales are left out of the total
calculateTotalCOGS_NewOnly(items, legacySales, inventoryItems) ==
  calculateSaleItemsCOGS(items, inventoryItems).totalCOGS

calculateTotalCOGS(items, legacySales, inventoryItems) ==
  Plus(calculateSaleItemsCOGS(items, inventoryItems).totalCOGS,
       calculateLegacySalesCOGS(legacySales, inventoryItems).totalCOGS)

\* the forEach of the pooled calculateSaleItemsCOGS / calculateLegacySalesCOGS
RECURSIVE PooledCOGS(_, _, _, _, _)
PooledCOGS(records, inventoryItems, shipments, i, acc) ==
  IF i > Len(records) THEN acc
  ELSE LET item == records[i]
           k == FindById(inventoryItems, item.inventoryId)
           j == IF k = 0 THEN 0 ELSE FindById(shipments, inventoryItems[k].shipmentId)
       IN IF k = 0 \/ j = 0 THEN PooledCOGS(records, inventoryItems, shipments, i + 1, acc)
          ELSE LET unitCost == calculateShipmentWAC(shipments[j], inventoryItems)
                   itemCOGS == Times(unitCost, item.quantitySold)
               IN PooledCOGS(records, inventoryItems, shipments, i + 1,
                    [totalCOGS |-> Plus(acc.totalCOGS, itemCOGS),
                     itemizedCOGS |->
                       Append(acc.itemizedCOGS,
                              [itemId |-> item.id, shipmentId |-> shipments[j].id,
                               quantitySold |-> item.quantitySold, unitCost |-> unitCost,
                               itemCOGS |-> itemCOGS])])

calculateSaleItemsCOGS_WAC(items, inventoryItems, shipments) ==
  PooledCOGS(items, inventoryItems, shipments, 1, NoCOGS)
calculateLegacySalesCOGS_WAC(legacySales, inventoryItems, shipments) ==
  PooledCOGS(legacySales, inventoryItems, shipments, 1, NoCOGS)
calculateTotalCOGS_WAC(items, legacySales, inventoryItems, shipments) ==
  Plus(calculateSaleItemsCOGS_WAC(items, inventoryItems, shipments).totalCOGS,
       calculateLegacySalesCOGS_WAC(legacySales, inventoryItems, shipments).totalCOGS)

\* new Date(t.saleDate?.toDate?.() ?? t.saleDate ?? new Date())
SaleDateOrNow(t, now) == IF t.saleDate = Unset THEN now ELSE t.saleDate[1]
\* toDate(value) is null for a missing value, and null fails the filter
HasDateWithin(r, startDate, endDate) ==
  r.saleDate # Unset /\ r.saleDate[1] >= startDate /\ r.saleDate[1] <= endDate

\* faulty variant: a sale made at the last instant of the window is left out
WithinRange_EndExclusive(t, startDate, endDate, now) ==
  SaleDateOrNow(t, now) >= startDate /\ SaleDateOrNow(t, now) < endDate

\* the filter of calculateCOGSForDateRange on the transactions
WithinRange(t, startDate, endDate, now) ==
  SaleDateOrNow(t, now) >= startDate /\ SaleDateOrNow(t, now) <= endDate

FilteredSaleItems(f) ==
  LET filteredTransactions ==
        SelectSeq(f.transactions, LAMBDA t : WithinRange(t, f.startDate, f.endDate, f.now))
      transactionIds == {filteredTransactions[i].id : i \in 1 .. Len(filteredTransactions)}
  IN SelectSeq(f.saleItems, LAMBDA item : item.transactionId \in transactionIds)
FilteredLegacySales(f) ==
  SelectSeq(f.legacySales, LAMBDA sale : HasDateWithin(sale, f.startDate, f.endDate))

calculateCOGSForDateRange(f) ==
  calculateTotalCOGS(FilteredSaleItems(f), FilteredLegacySales(f), f.inventoryItems)
calculateCOGSForDateRange_WAC(f) ==
  calculateTotalCOGS_WAC(FilteredSaleItems(f), FilteredLegacySales(f), f.inventoryItems,
                         f.shipments)

RECURSIVE SumTotal(_)
SumTotal(list) == IF list = <<>> THEN 0 ELSE Head(list).total + SumTotal(Tail(list))
RECURSIVE SumPriceTimesQuantity(_)
SumPriceTimesQuantity(list) ==
  IF list = <<>> THEN 0
  ELSE Head(list).pricePerItem * Head(list).quantitySold + SumPriceTimesQuantity(Tail(list))

\* faulty variant: the revenue of the new sales is added up from their lines
totalRevenue_FromLines(f) ==
  SumPriceTimesQuantity(FilteredSaleItems(f)) +
  SumPriceTimesQuantity(FilteredLegacySales(f))

\* revenueMonth of the Dashboard, totalRevenue of the Reports page
totalRevenue(f) ==
  SumTotal(SelectSeq(f.transactions, LAMBDA t : HasDateWithin(t, f.startDate, f.endDate))) +
  SumPriceTimesQuantity(FilteredLegacySales(f))

(* ---------------------------- what a page may hold --------------------- *)
Variants == {"direct", "pooled"}

\* one batch in every shape of its purchase fields, a sibling batch of the
\* same or of another shipment, and the shipment
CostBatches ==
  {Batch("b1", c, pq, upp, iq, "sh1") :
     c \in {0, 2400}, pq \in {Unset, <<0>>, <<1>>, <<2>>}, upp \in {Unset, <<0>>, <<24>>},
     iq \in {0, 24, 50}}
Siblings == {Batch("b2", 100, <<1>>, <<50>>, iq, sh) : iq \in {0, 50}, sh \in {"sh1", "sh2"}}
Lots == {[id |-> "sh1", totalCost |-> c] : c \in {0, 100000}}

InitCost ==
  /\ InitSale
  /\ \E b1 \in CostBatches, b2 \in Siblings, lot \in Lots :
        fetched = [NoData EXCEPT !.inventoryItems = <<b1, b2>>, !.shipments = <<lot>>,
                                 !.saleItems = <<SaleItem("s1", "x1", "b1", 3, 150),
                                                 SaleItem("s2", "x1", "b2", 10, 150)>>]
  /\ report = NoReport
  /\ salesPage = ClosedSalesPage
  /\ inventoryPage = ClosedInventoryPage
  /\ NoTeams
  /\ authState = Mounted

\* the sale lines of two transactions, the second of a batch deleted since,
\* in any selection and order; legacy sales of a live and of a deleted batch
Orderings(S) ==
  {q \in [1 .. Cardinality(S) -> S] : \A i, j \in DOMAIN q : i # j => q[i] # q[j]}
Arrangements(S) == UNION {Orderings(T) : T \in SUBSET S}
ReportLines ==
  {SaleItem("s1", "x1", "b1", 3, 150), SaleItem("s2", "x1", "b2", 1, 100),
   SaleItem("s3", "x2", "b0", 2, 100)}
ReportLegacy(d) == {LegacySale("l1", "b1", 1, 150, d), LegacySale("l2", "b0", 2, 100, 2)}
ReportBatches ==
  <<Batch("b1", 2400, <<1>>, <<24>>, 24, "sh1"), Batch("b2", 100, <<1>>, <<3>>, 3, "sh2")>>
Dates == 1 .. MaxDate

InitReport ==
  /\ InitSale
  /\ \E lines \in Arrangements(ReportLines), d1 \in Dates, dl \in Dates,
        tax \in Taxes, discount \in Discounts, s \in Dates, e \in Dates :
     \E legacy \in Arrangements(ReportLegacy(dl)) :
        /\ s <= e
        /\ (\A i \in DOMAIN legacy : legacy[i].id # "l1") => dl = 1
        /\ fetched =
             [inventoryItems |-> ReportBatches,
              shipments |-> <<[id |-> "sh1", totalCost |-> 4800]>>,
              saleItems |-> lines, legacySales |-> legacy,
              transactions |-> <<Transaction("x1", 550, tax, discount, d1),
                                 Transaction("x2", 200, Unset, Unset, 2)>>,
              startDate |-> s, endDate |-> e, now |-> MaxDate]
  /\ report = NoReport
  /\ salesPage = ClosedSalesPage
  /\ inventoryPage = ClosedInventoryPage
  /\ NoTeams
  /\ authState = Mounted

\* a transaction document whose saleDate the page could not read: missing,
\* a server timestamp not yet resolved, or a value that is no Timestamp
Undated(t) == [t EXCEPT !.saleDate = Unset]

\* the lists of a page, the second transaction with or without its date
InitPending ==
  /\ InitSale
  /\ \E d1 \in Dates, tax \in Taxes, discount \in Discounts, s \in Dates, e \in Dates,
        x2 \in {Transaction("x2", 200, Unset, Unset, 2),
                Undated(Transaction("x2", 200, Unset, Unset, 2))} :
        /\ s <= e
        /\ fetched =
             [inventoryItems |-> ReportBatches,
              shipments |-> <<[id |-> "sh1", totalCost |-> 4800]>>,
              saleItems |-> <<SaleItem("s1", "x1", "b1", 3, 150),
                              SaleItem("s2", "x1", "b2", 1, 100),
                              SaleItem("s3", "x2", "b1", 2, 100)>>,
              legacySales |-> <<LegacySale("l1", "b1", 1, 100, 2)>>,
              transactions |-> <<Transaction("x1", 550, tax, discount, d1), x2>>,
              startDate |-> s, endDate |-> e, now |-> MaxDate]
  /\ report = NoReport
  /\ salesPage = ClosedSalesPage
  /\ inventoryPage = ClosedInventoryPage
  /\ NoTeams
  /\ authState = Mounted

(* ---------------------------- what a page computes --------------------- *)
Computes(r) ==
  /\ report = NoReport
  /\ report' = r
  /\ UNCHANGED <<inventory, transactions, saleItems, users, call, nextId, started, fetched,
                 salesPage, inventoryPage, teamVars, authState>>

\* the cost preview of one batch
UnitCostStep ==
  \E i \in DOMAIN fetched.inventoryItems :
     Computes([op |-> "unitCost", batch |-> i,
               unitCost |-> calculateInventoryUnitCost(fetched.inventoryItems[i])])

ShipmentWACStep ==
  \E j \in DOMAIN fetched.shipments :
     Computes([op |-> "wac", shipment |-> j,
               unitCost |-> calculateShipmentWAC(fetched.shipments[j], fetched.inventoryItems)])

\* cogsAll of the Dashboard
AllTimeStep ==
  \E v \in Variants :
     LET f == fetched
     IN Computes(
          IF v = "direct"
          THEN [op |-> "all", variant |-> v,
                new |-> calculateSaleItemsCOGS(f.saleItems, f.inventoryItems),
                legacy |-> calculateLegacySalesCOGS(f.legacySales, f.inventoryItems),
                totalCOGS |-> calculateTotalCOGS(f.saleItems, f.legacySales, f.inventoryItems)]
          ELSE [op |-> "all", variant |-> v,
                new |-> calculateSaleItemsCOGS_WAC(f.saleItems, f.inventoryItems, f.shipments),
                legacy |->
                  calculateLegacySalesCOGS_WAC(f.legacySales, f.inventoryItems, f.shipments),
                totalCOGS |->
                  calculateTotalCOGS_WAC(f.saleItems, f.legacySales, f.inventoryItems,
                                         f.shipments)])

\* revenueMonth and cogsMonth of the Dashboard, the quarterly report of the
\* Reports page
WindowStep ==
  \E v \in Variants :
     Computes([op |-> "window", variant |-> v,
               totalRevenue |-> totalRevenue(fetched),
               totalCOGS |-> IF v = "direct" THEN calculateCOGSForDateRange(fetched)
                             ELSE calculateCOGSForDateRange_WAC(fetched)])

NextReport == UnitCostStep \/ ShipmentWACStep \/ AllTimeStep \/ WindowStep

SpecCost == InitCost /\ [][NextReport]_vars
SpecReport == InitReport /\ [][NextReport]_vars
SpecPending == InitPending /\ [][NextReport]_vars

(* ======================= properties of the cost basis ================== *)
Max(a, b) == IF a >= b THEN a ELSE b
\* x is the quotient n / d
IsQuotient(x, n, d) == x.den > 0 /\ x.num * d = n * x.den
ScenarioA(inv) ==
  inv.totalCost = 2400 /\ inv.purchaseQuantity = <<1>> /\ inv.unitsPerPack = <<24>>
PreviewedBatch == fetched.inventoryItems[report.batch]

\* C11 as stated: the unit cost of every batch, also of one whose
\* purchaseQuantity or unitsPerPack is zero or absent, is
\* totalCost / max(1, purchaseQuantity * unitsPerPack) and is not negative.
C11_UnitCostAsStated ==
  report.op = "unitCost" =>
     LET inv == PreviewedBatch
     IN /\ IsQuotient(report.unitCost, inv.totalCost,
                      Max(1, OrZero(inv.purchaseQuantity) * OrZero(inv.unitsPerPack)))
        /\ report.unitCost.num >= 0

\* C11 (amended): the unit cost is totalCost / (P * U), where P is the
\* purchaseQuantity, or 1 if that is zero or absent, and U is the unitsPerPack,
\* or the batch's initialQuantity if that is zero or absent; it is 0 when
\* P * U is 0 and never negative.  A batch bought for 2400 as 1 pack of 24
\* costs 100 a unit, and 3 units sold of it cost 300.
C11_UnitCost ==
  /\ report.op = "unitCost" =>
        LET inv == PreviewedBatch
            P == IF inv.purchaseQuantity \in {Unset, <<0>>} THEN 1 ELSE inv.purchaseQuantity[1]
            U == IF inv.unitsPerPack \in {Unset, <<0>>} THEN inv.initialQuantity
                 ELSE inv.unitsPerPack[1]
        IN /\ P * U > 0 => IsQuotient(report.unitCost, inv.totalCost, P * U)
           /\ P * U = 0 => report.unitCost.num = 0
           /\ report.unitCost.num >= 0 /\ report.unitCost.den > 0
           /\ ScenarioA(inv) => report.unitCost = [num |-> 100, den |-> 1]
  /\ (report.op = "all" /\ report.variant = "direct" /\ ScenarioA(fetched.inventoryItems[1])) =>
        /\ report.new.itemizedCOGS[1].inventoryId = "b1"
        /\ report.new.itemizedCOGS[1].quantitySold = 3
        /\ report.new.itemizedCOGS[1].itemCOGS = [num |-> 300, den |-> 1]

\* the preview of a batch recorded without its pack size: 2 packs, 24 units
\* received, bought for 2400, cost 50 a unit
C11_Witness ==
  /\ report.op = "unitCost"
  /\ PreviewedBatch.purchaseQuantity = <<2>>
  /\ PreviewedBatch.unitsPerPack = Unset
  /\ PreviewedBatch.initialQuantity = 24
  /\ PreviewedBatch.totalCost = 2400
  /\ report.unitCost = [num |-> 50, den |-> 1]

RECURSIVE UnitsReceived(_, _)
UnitsReceived(members, items) ==
  IF members = {} THEN 0
  ELSE LET i == CHOOSE i \in members : TRUE
       IN items[i].initialQuantity + UnitsReceived(members \ {i}, items)
BatchesOf(lot) ==
  {i \in DOMAIN fetched.inventoryItems : fetched.inventoryItems[i].shipmentId = lot.id}
ScenarioB ==
  /\ fetched.shipments[1].totalCost = 100000
  /\ \A i \in DOMAIN fetched.inventoryItems :
        /\ fetched.inventoryItems[i].shipmentId = "sh1"
        /\ fetched.inventoryItems[i].initialQuantity = 50

\* C12: the weighted average cost of a shipment is its totalCost divided by
\* the units received, the sum of initialQuantity over exactly the batches of
\* that shipment, and 0 when no unit was received; every batch of a shipment
\* is sold at the same unit cost (100000 over batches of 50 and 50 is 1000 a
\* unit, 10000 for 10 units of either).
C12_ShipmentWAC ==
  /\ report.op = "wac" =>
        LET lot == fetched.shipments[report.shipment]
            units == UnitsReceived(BatchesOf(lot), fetched.inventoryItems)
        IN /\ units = 0 => report.unitCost = [num |-> 0, den |-> 1]
           /\ units > 0 => IsQuotient(report.unitCost, lot.totalCost, units)
           /\ ScenarioB => report.unitCost = [num |-> 1000, den |-> 1]
  /\ (report.op = "all" /\ report.variant = "pooled") =>
        /\ \A i, j \in DOMAIN report.new.itemizedCOGS :
              report.new.itemizedCOGS[i].shipmentId = report.new.itemizedCOGS[j].shipmentId
                 => report.new.itemizedCOGS[i].unitCost = report.new.itemizedCOGS[j].unitCost
        /\ ScenarioB =>
              /\ Len(report.new.itemizedCOGS) = 2
              /\ report.new.itemizedCOGS[2].quantitySold = 10
              /\ report.new.itemizedCOGS[2].itemCOGS = [num |-> 10000, den |-> 1]

\* a shipment of 100000 received as two batches of 50
C12_Witness ==
  /\ report.op = "wac"
  /\ ScenarioB
  /\ report.unitCost = [num |-> 1000, den |-> 1]


(* ======================= properties of the COGS aggregate ============== *)
HasId(list, id) == \E i \in DOMAIN list : list[i].id = id
BatchOf(rec) ==
  fetched.inventoryItems[CHOOSE i \in DOMAIN fetched.inventoryItems :
                            fetched.inventoryItems[i].id = rec.inventoryId]
\* the batch of the record is among the fetched ones and, in the pooled
\* variant, so is the shipment of that batch
Resolves(rec, variant) ==
  /\ HasId(fetched.inventoryItems, rec.inventoryId)
  /\ variant = "pooled" => HasId(fetched.shipments, BatchOf(rec).shipmentId)
UnitCostOf(rec, variant) ==
  IF variant = "direct" THEN calculateInventoryUnitCost(BatchOf(rec))
  ELSE calculateShipmentWAC(
         fetched.shipments[CHOOSE j \in DOMAIN fetched.shipments :
                              fetched.shipments[j].id = BatchOf(rec).shipmentId],
         fetched.inventoryItems)

RECURSIVE ProductOfDens(_)
ProductOfDens(entries) ==
  IF entries = <<>> THEN 1 ELSE Head(entries).itemCOGS.den * ProductOfDens(Tail(entries))
RECURSIVE SumOfNums(_, _)
SumOfNums(entries, D) ==
  IF entries = <<>> THEN 0
  ELSE Head(entries).itemCOGS.num * (D \div Head(entries).itemCOGS.den)
       + SumOfNums(Tail(entries), D)
\* total is the sum of the itemCOGS of the entries
IsSumOfItems(total, entries) ==
  LET D == ProductOfDens(entries) IN IsQuotient(total, SumOfNums(entries, D), D)

\* the result of one aggregate function over the input records
AggregateOf(result, records, variant) ==
  LET resolved == SelectSeq(records, LAMBDA rec : Resolves(rec, variant))
  IN /\ Len(result.itemizedCOGS) = Len(resolved)
     /\ \A k \in DOMAIN resolved :
           LET entry == result.itemizedCOGS[k]
           IN /\ entry.itemId = resolved[k].id
              /\ entry.quantitySold = resolved[k].quantitySold
              /\ entry.unitCost = UnitCostOf(resolved[k], variant)
              /\ IsQuotient(entry.itemCOGS, entry.unitCost.num * entry.quantitySold,
                            entry.unitCost.den)
     /\ IsSumOfItems(result.totalCOGS, result.itemizedCOGS)

\* C13: the itemized entries of a COGS aggregate are exactly the records whose
\* batch resolves, in input order, each with itemCOGS = unitCost(batch) *
\* quantitySold; totalCOGS is the sum of the itemCOGS; calculateTotalCOGS is the
\* sale-line total plus the legacy total.
C13_Aggregate ==
  report.op = "all" =>
     /\ AggregateOf(report.new, fetched.saleItems, report.variant)
     /\ AggregateOf(report.legacy, fetched.legacySales, report.variant)
     /\ IsQuotient(report.totalCOGS,
                   report.new.totalCOGS.num * report.legacy.totalCOGS.den
                     + report.legacy.totalCOGS.num * report.new.totalCOGS.den,
                   report.new.totalCOGS.den * report.legacy.totalCOGS.den)

\* three lines, the first of a deleted batch, and two legacy sales: the two
\* live lines and the live legacy sale add up to 100/3 + 300 + 100
C13_Witness ==
  /\ report.op = "all" /\ report.variant = "direct"
  /\ Len(fetched.saleItems) = 3 /\ fetched.saleItems[1].id = "s3"
  /\ fetched.saleItems[2].id = "s2"
  /\ Len(fetched.legacySales) = 2
  /\ Len(report.new.itemizedCOGS) = 2
  /\ report.new.itemizedCOGS[1].itemId = "s2"
  /\ report.totalCOGS = [num |-> 1300, den |-> 3]

\* the fetched data without the records whose batch does not resolve
ResolvableOnly(f, variant) ==
  [f EXCEPT !.saleItems = SelectSeq(@, LAMBDA rec : Resolves(rec, variant)),
            !.legacySales = SelectSeq(@, LAMBDA rec : Resolves(rec, variant))]
AllTimeCOGS(f, variant) ==
  IF variant = "direct" THEN calculateTotalCOGS(f.saleItems, f.legacySales, f.inventoryItems)
  ELSE calculateTotalCOGS_WAC(f.saleItems, f.legacySales, f.inventoryItems, f.shipments)
WindowCOGS(f, variant) ==
  IF variant = "direct" THEN calculateCOGSForDateRange(f) ELSE calculateCOGSForDateRange_WAC(f)
InWindow(rec) == rec.saleDate[1] \in fetched.startDate .. fetched.endDate
RECURSIVE SumAt(_, _)
SumAt(amounts, idx) ==
  IF idx = {} THEN 0
  ELSE LET i == CHOOSE i \in idx : TRUE IN amounts[i] + SumAt(amounts, idx \ {i})
LegacyAmounts ==
  [i \in DOMAIN fetched.legacySales |->
     fetched.legacySales[i].pricePerItem * fetched.legacySales[i].quantitySold]
\* a transaction of the window none of whose lines resolves, a legacy sale of
\* the window whose batch does not resolve
LostTransactions(variant) ==
  {i \in DOMAIN fetched.transactions :
     /\ InWindow(fetched.transactions[i])
     /\ \A l \in DOMAIN fetched.saleItems :
           fetched.saleItems[l].transactionId = fetched.transactions[i].id
              => ~Resolves(fetched.saleItems[l], variant)}
LostLegacy(variant) ==
  {i \in DOMAIN fetched.legacySales :
     InWindow(fetched.legacySales[i]) /\ ~Resolves(fetched.legacySales[i], variant)}
Unresolved(variant) ==
  {fetched.saleItems[i].id : i \in {l \in DOMAIN fetched.saleItems :
                                      ~Resolves(fetched.saleItems[l], variant)}}
  \cup {fetched.legacySales[i].id : i \in {l \in DOMAIN fetched.legacySales :
                                             ~Resolves(fetched.legacySales[l], variant)}}

\* C14: a sale line or legacy sale whose batch (pooled: whose shipment) cannot
\* be resolved is absent from itemized and adds nothing to totalCOGS, the
\* functions return all the same, and the revenue of the window still counts
\* it.
C14_UnresolvedSkipped ==
  /\ report.op = "all" =>
        /\ \A k \in DOMAIN report.new.itemizedCOGS :
              report.new.itemizedCOGS[k].itemId \notin Unresolved(report.variant)
        /\ \A k \in DOMAIN report.legacy.itemizedCOGS :
              report.legacy.itemizedCOGS[k].itemId \notin Unresolved(report.variant)
        /\ report.totalCOGS = AllTimeCOGS(ResolvableOnly(fetched, report.variant), report.variant)
  /\ report.op = "window" =>
        /\ report.totalCOGS = WindowCOGS(ResolvableOnly(fetched, report.variant), report.variant)
        /\ report.totalRevenue >=
             SumAt([i \in DOMAIN fetched.transactions |-> fetched.transactions[i].total],
                   LostTransactions(report.variant))
             + SumAt(LegacyAmounts, LostLegacy(report.variant))

\* the window holds a sale of a deleted batch and a legacy sale of a deleted
\* batch and nothing else that resolves: no cost, 200 + 200 of revenue
C14_Witness ==
  /\ report.op = "window" /\ report.variant = "direct"
  /\ fetched.startDate = 2 /\ fetched.endDate = 2
  /\ fetched.transactions[1].saleDate # <<2>>
  /\ \E i \in DOMAIN fetched.saleItems : fetched.saleItems[i].id = "s3"
  /\ \E i \in DOMAIN fetched.legacySales : fetched.legacySales[i].id = "l2"
  /\ \A i \in DOMAIN fetched.legacySales :
        fetched.legacySales[i].id = "l1" => fetched.legacySales[i].saleDate # <<2>>
  /\ report.totalCOGS = [num |-> 0, den |-> 1]
  /\ report.totalRevenue = 400


(* ======================= properties of the report window =============== *)
\* the sale lines whose transaction is dated within the window, the legacy
\* sales dated within it
LinesOfWindow ==
  SelectSeq(fetched.saleItems,
            LAMBDA line : \E i \in DOMAIN fetched.transactions :
                             /\ fetched.transactions[i].id = line.transactionId
                             /\ InWindow(fetched.transactions[i]))
LegacyOfWindow == SelectSeq(fetched.legacySales, InWindow)

C16_Revenue ==
  report.op = "window" =>
     report.totalRevenue =
        SumAt([i \in DOMAIN fetched.transactions |->
                 fetched.transactions[i].subtotal + OrZero(fetched.transactions[i].tax)
                   - OrZero(fetched.transactions[i].discount)],
              {i \in DOMAIN fetched.transactions : InWindow(fetched.transactions[i])})
        + SumAt(LegacyAmounts,
                {i \in DOMAIN fetched.legacySales : InWindow(fetched.legacySales[i])})

\* a taxed and discounted sale of 550 alone in the window, its lines not
\* fetched: the revenue is 550 + 1 - 5
C16_Witness ==
  /\ report.op = "window"
  /\ fetched.startDate = 1 /\ fetched.endDate = 1
  /\ fetched.transactions[1].saleDate = <<1>>
  /\ fetched.transactions[1].tax = <<1>> /\ fetched.transactions[1].discount = <<5>>
  /\ fetched.saleItems = <<>> /\ fetched.legacySales = <<>>
  /\ report.totalRevenue = 546


\* the transactions of the fetched list that a filter lets through
CountedInCOGS ==
  {i \in DOMAIN fetched.transactions :
     WithinRange(fetched.transactions[i], fetched.startDate, fetched.endDate, fetched.now)}
CountedInRevenue ==
  {i \in DOMAIN fetched.transactions :
     HasDateWithin(fetched.transactions[i], fetched.startDate, fetched.endDate)}

\* C28: for any window and any fetched data the transactions whose lines
\* are counted in the window's COGS are the transactions whose total is
\* counted in the window's revenue, a transaction without a readable
\* saleDate included.
C28_SameTransactions ==
  report.op = "window" => CountedInCOGS = CountedInRevenue

(* ======================= the Sales page: deleteTransaction ============= *)
(* The page lists the transactions and the sale lines of the team from two *)
(* independent queries, each refetched on its own.  deleteTransaction      *)
(* takes the lines of the transaction from the cached sale-line list,      *)
(* issues one deleteDoc per line (Promise.all), and once all have resolved *)
(* deletes the transaction document and refetches both lists.  None of the *)
(* writes is part of a transaction; each may be refused by the server.     *)
(* ----------------------------------------------------------------------- *)
OfTeam(docs, team) == {d \in docs : d.teamId = team}

\* the transactions query returns
FetchTransactions ==
  /\ salesPage.transactionsData # OfTeam(transactions, "t1")
  /\ salesPage' = [salesPage EXCEPT !.transactionsData = OfTeam(transactions, "t1")]
  /\ UNCHANGED <<inventory, transactions, saleItems, users, call, nextId, started,
                 fetched, report, inventoryPage, teamVars, authState>>

\* the saleItems query returns
FetchSaleItems ==
  /\ salesPage.saleItemsData # OfTeam(saleItems, "t1")
  /\ salesPage' = [salesPage EXCEPT !.saleItemsData = OfTeam(saleItems, "t1")]
  /\ UNCHANGED <<inventory, transactions, saleItems, users, call, nextId, started,
                 fetched, report, inventoryPage, teamVars, authState>>

\* faulty variant: the lines are not looked up, only the transaction is deleted
RelatedItems_None(data, transactionId) == {}

\* (saleItemsQuery.data || []).filter(item => item.transactionId === transactionId)
RelatedItems(data, transactionId) == {item \in data : item.transactionId = transactionId}

\* the user confirms the deletion of a listed transaction: the deleteDoc of
\* every related line is issued
DeleteTransactionStart ==
  /\ salesPage.pc = "idle"
  /\ \E t \in salesPage.transactionsData :
        salesPage' =
          [salesPage EXCEPT
             !.pc = "deletingItems", !.transactionId = t.id,
             !.pending = {item.id : item \in RelatedItems(salesPage.saleItemsData, t.id)}]
  /\ UNCHANGED <<inventory, transactions, saleItems, users, call, nextId, started,
                 fetched, report, inventoryPage, teamVars, authState>>

\* one deleteDoc of a line is applied (also after another one was refused:
\* Promise.all does not call the others back)
DeleteItemLands ==
  /\ \E id \in salesPage.pending :
        /\ saleItems' = {item \in saleItems : item.id # id}
        /\ salesPage' = [salesPage EXCEPT !.pending = @ \ {id}]
  /\ UNCHANGED <<inventory, transactions, users, call, nextId, started,
                 fetched, report, inventoryPage, teamVars, authState>>

\* one deleteDoc of a line is refused: Promise.all rejects, the catch shows
\* the error and the transaction document stays
DeleteItemFails ==
  /\ salesPage.pc = "deletingItems"
  /\ \E id \in salesPage.pending :
        salesPage' = [salesPage EXCEPT !.pending = @ \ {id}, !.pc = "failed"]
  /\ UNCHANGED <<inventory, transactions, saleItems, users, call, nextId, started,
                 fetched, report, inventoryPage, teamVars, authState>>

\* all line deletes resolved: the transaction document is deleted
DeleteTransactionDoc ==
  /\ salesPage.pc = "deletingItems"
  /\ salesPage.pending = {}
  /\ transactions' = {t \in transactions : t.id # salesPage.transactionId}
  /\ salesPage' = [salesPage EXCEPT !.pc = "invalidating"]
  /\ UNCHANGED <<inventory, saleItems, users, call, nextId, started,
                 fetched, report, inventoryPage, teamVars, authState>>

\* the delete of the transaction document is refused
DeleteTransactionDocFails ==
  /\ salesPage.pc = "deletingItems"
  /\ salesPage.pending = {}
  /\ salesPage' = [salesPage EXCEPT !.pc = "failed"]
  /\ UNCHANGED <<inventory, transactions, saleItems, users, call, nextId, started,
                 fetched, report, inventoryPage, teamVars, authState>>

\* invalidateQueries of both lists, awaited, then the success message
DeleteInvalidate ==
  /\ salesPage.pc = "invalidating"
  /\ salesPage' = [salesPage EXCEPT !.pc = "idle", !.transactionId = 0,
                                    !.transactionsData = OfTeam(transactions, "t1"),
                                    !.saleItemsData = OfTeam(saleItems, "t1")]
  /\ UNCHANGED <<inventory, transactions, saleItems, users, call, nextId, started,
                 fetched, report, inventoryPage, teamVars, authState>>

\* the error message is closed
DeleteDismiss ==
  /\ salesPage.pc = "failed"
  /\ salesPage.pending = {}
  /\ salesPage' = [salesPage EXCEPT !.pc = "idle", !.transactionId = 0]
  /\ UNCHANGED <<inventory, transactions, saleItems, users, call, nextId, started,
                 fetched, report, inventoryPage, teamVars, authState>>

\* another device of the team sells one unit of b1, alone or with one of b2
StartPageSale ==
  /\ \E items \in {<<Line("b1", 1, 2)>>, <<Line("b1", 1, 2), Line("b2", 1, 2)>>} :
        Start("c1", "u1", items, Unset, Unset)
  /\ UNCHANGED <<started, aside>>

NextDelete ==
  \/ StartPageSale \/ ReadLineAny \/ CommitAny \/ ReturnAny
  \/ FetchTransactions \/ FetchSaleItems
  \/ DeleteTransactionStart \/ DeleteItemLands \/ DeleteItemFails
  \/ DeleteTransactionDoc \/ DeleteTransactionDocFails \/ DeleteInvalidate \/ DeleteDismiss

SpecDelete == Init /\ [][NextDelete]_vars

(* ======================= properties of deleteTransaction =============== *)
\* C17: deleting a committed transaction deletes all of its sale lines first
\* and the transaction document afterwards, and leaves the currentStock of
\* every batch as it was.
C17_DeleteCascade ==
  [][/\ \A t \in transactions \ transactions' :
           ~\E item \in saleItems : item.transactionId = t.id
     /\ (transactions' \subseteq transactions /\ saleItems' \subseteq saleItems
         /\ <<transactions', saleItems'>> # <<transactions, saleItems>>)
           => \A b \in DOMAIN inventory :
                 inventory'[b].currentStock = inventory[b].currentStock]_vars


\* C27: in every state, also after a deleteTransaction that failed part-way
\* or worked from a stale list of sale lines, every stored sale line belongs
\* to a stored transaction and every stored transaction's subtotal is the sum
\* of lineTotal over its stored lines.
C27_NoOrphans ==
  /\ \A s \in saleItems : \E t \in transactions : t.id = s.transactionId
  /\ \A t \in transactions : t.subtotal = SumLineTotals(LinesOf(t))

(* ======================= the Inventory page: quantity edits ============ *)
(* Each batch of the cached inventory list shows its 'Initial Qty' and     *)
(* 'Current Stock' in fields whose onBlur handler validates the entry      *)
(* against the cached batch and writes it with updateDoc, outside any      *)
(* transaction, then refetches the list.                                   *)
(* ----------------------------------------------------------------------- *)
\* quantity edits made on the page in one behaviour
MaxEdits == 2

Listed(inv) ==
  [b \in {x \in DOMAIN inv : inv[x].teamId = "t1"} |->
     [initialQuantity |-> inv[b].initialQuantity, currentStock |-> inv[b].currentStock]]

\* the inventory query returns
FetchInventory ==
  /\ inventoryPage.data # Listed(inventory)
  /\ inventoryPage' = [inventoryPage EXCEPT !.data = Listed(inventory)]
  /\ UNCHANGED <<inventory, transactions, saleItems, users, call, nextId, started,
                 fetched, report, salesPage, teamVars, authState>>

\* updateWithMeta('inventory', id, { currentStock: next })
CurrentStockUpdate(inv, next) == [inv EXCEPT !.currentStock = next, !.updateTime = @ + 1]

\* faulty variant: a new initial quantity also resets the stock to it
InitialQuantityUpdate_ResetsStock(inv, next) ==
  [inv EXCEPT !.initialQuantity = next, !.currentStock = next, !.updateTime = @ + 1]

\* updateWithMeta('inventory', id, { initialQuantity: next })
InitialQuantityUpdate(inv, next) == [inv EXCEPT !.initialQuantity = next, !.updateTime = @ + 1]

\* onBlur of 'Current Stock' with the entry next = Math.max(0, Math.floor(...))
EditCurrentStock ==
  /\ inventoryPage.edits < MaxEdits
  /\ \E b \in DOMAIN inventoryPage.data, next \in 0 .. MaxStock :
        IF next > inventoryPage.data[b].initialQuantity
        THEN /\ inventoryPage' =
                  [inventoryPage EXCEPT !.edits = @ + 1,
                     !.snack = "Current stock cannot exceed initial quantity"]
             /\ UNCHANGED inventory
        ELSE /\ inventory' = [inventory EXCEPT ![b] = CurrentStockUpdate(@, next)]
             /\ inventoryPage' =
                  [inventoryPage EXCEPT !.edits = @ + 1, !.data = Listed(inventory'),
                                        !.snack = "Current stock updated"]
  /\ UNCHANGED <<transactions, saleItems, users, call, nextId, started,
                 fetched, report, salesPage, teamVars, authState>>

\* onBlur of 'Initial Qty'
EditInitialQuantity ==
  /\ inventoryPage.edits < MaxEdits
  /\ \E b \in DOMAIN inventoryPage.data, next \in 0 .. MaxStock :
        IF next < inventoryPage.data[b].currentStock
        THEN /\ inventoryPage' =
                  [inventoryPage EXCEPT !.edits = @ + 1,
                     !.snack = "Initial quantity cannot be less than current stock"]
             /\ UNCHANGED inventory
        ELSE /\ inventory' = [inventory EXCEPT ![b] = InitialQuantityUpdate(@, next)]
             /\ inventoryPage' =
                  [inventoryPage EXCEPT !.edits = @ + 1, !.data = Listed(inventory'),
                                        !.snack = "Initial quantity updated"]
  /\ UNCHANGED <<transactions, saleItems, users, call, nextId, started,
                 fetched, report, salesPage, teamVars, authState>>

NextEdit ==
  \/ StartPageSale \/ ReadLineAny \/ CommitAny \/ ReturnAny
  \/ FetchInventory \/ EditCurrentStock \/ EditInitialQuantity

SpecEdit == Init /\ [][NextEdit]_vars

(* ----------------------- receiving inventory --------------------------- *)
\* what the Receive Inventory form may hold in its two quantity fields (an
\* empty field counts as 0) and in its cost field, in cents
ReceiveQuantities == 0 .. MaxStock
ReceiveCosts == {0, 100}
\* the ids addDoc hands out for received batches
ReceivedIds == {"r1", "r2"}

\* inventoryData of onReceive
ReceivedBatch(purchaseQuantityField, unitsPerPackField, totalCost) ==
  LET purchaseQuantity == IF purchaseQuantityField < 1 THEN 1 ELSE purchaseQuantityField
      unitsPerPack == IF unitsPerPackField < 1 THEN 1 ELSE unitsPerPackField
      totalUnits == purchaseQuantity * unitsPerPack
  IN [teamId |-> "t1", totalCost |-> totalCost, purchaseQuantity |-> <<purchaseQuantity>>,
      unitsPerPack |-> <<unitsPerPack>>, initialQuantity |-> totalUnits,
      currentStock |-> totalUnits, updateTime |-> 0]

\* onReceive: addWithTeamMeta('inventory', inventoryData) and the refetch
Receive ==
  /\ \E id \in ReceivedIds \ DOMAIN inventory, pq \in ReceiveQuantities,
        upp \in ReceiveQuantities, cost \in ReceiveCosts :
        inventory' = (id :> ReceivedBatch(pq, upp, cost)) @@ inventory
  /\ inventoryPage' = [inventoryPage EXCEPT !.data = Listed(inventory'),
                                            !.snack = "Inventory received successfully"]
  /\ UNCHANGED <<transactions, saleItems, users, call, nextId, started,
                 fetched, report, salesPage, teamVars, authState>>

\* a team that has received nothing yet
InitReceive ==
  /\ inventory = [b \in {} |-> 0]
  /\ transactions = {}
  /\ saleItems = {}
  /\ users = [u \in Uids |-> [teamId |-> IF u = "u1" THEN "t1" ELSE NoTeam]]
  /\ call = [c \in Calls |-> IdleCall]
  /\ nextId = 1
  /\ started = 0
  /\ fetched = NoData
  /\ report = NoReport
  /\ salesPage = ClosedSalesPage
  /\ inventoryPage = ClosedInventoryPage
  /\ NoTeams
  /\ authState = Mounted

NextReceive == Receive \/ EditCurrentStock \/ EditInitialQuantity

SpecReceive == InitReceive /\ [][NextReceive]_vars

(* ----------------------- deleting a batch ------------------------------ *)
\* the legacy sales collection: one sale of b2 recorded before the multi-line
\* sales existed; recordSaleTransaction never writes this collection
sales == {[id |-> "l1", inventoryId |-> "b2", quantitySold |-> 1, teamId |-> "t1"]}

\* existsTeamWhere(path, 'inventoryId', value, teamId) for the collections
\* of sale records
existsTeamWhere(path, field, value, teamId) ==
  LET docs == IF path = "sales" THEN sales ELSE saleItems
  IN \E d \in docs : d.teamId = teamId /\ d[field] = value

\* the confirmed Delete of a listed batch: the awaited existence query
DeleteInventoryCheck ==
  /\ inventoryPage.deleting = ""
  /\ \E b \in DOMAIN inventoryPage.data :
        inventoryPage' =
          IF existsTeamWhere("sales", "inventoryId", b, "t1")
          THEN [inventoryPage EXCEPT !.snack = "Cannot delete: sales exist for this inventory"]
          ELSE [inventoryPage EXCEPT !.deleting = b, !.snack = ""]
  /\ UNCHANGED <<inventory, transactions, saleItems, users, call, nextId, started,
                 fetched, report, salesPage, teamVars, authState>>

\* deleteById('inventory', inv.id) and the refetch
DeleteInventoryLands ==
  /\ inventoryPage.deleting # ""
  /\ inventory' = [b \in DOMAIN inventory \ {inventoryPage.deleting} |-> inventory[b]]
  /\ inventoryPage' = [inventoryPage EXCEPT !.deleting = "", !.data = Listed(inventory'),
                                            !.snack = "Inventory deleted"]
  /\ UNCHANGED <<transactions, saleItems, users, call, nextId, started,
                 fetched, report, salesPage, teamVars, authState>>

\* b2 was sold out through the legacy sale
InitRemove ==
  /\ inventory =
       [b \in {"b1", "b2", "b3"} |->
          [teamId |-> IF b = "b3" THEN "t2" ELSE "t1",
           initialQuantity |-> Received(b),
           currentStock |-> IF b = "b2" THEN 0 ELSE Received(b), updateTime |-> 0]]
  /\ transactions = {}
  /\ saleItems = {}
  /\ users = [u \in Uids |-> [teamId |-> IF u = "u1" THEN "t1" ELSE NoTeam]]
  /\ call = [c \in Calls |-> IdleCall]
  /\ nextId = 1
  /\ started = 0
  /\ fetched = NoData
  /\ report = NoReport
  /\ salesPage = ClosedSalesPage
  /\ inventoryPage = ClosedInventoryPage
  /\ NoTeams
  /\ authState = Mounted

NextRemove ==
  \/ StartPageSale \/ ReadLineAny \/ CommitAny \/ ReturnAny
  \/ FetchInventory \/ DeleteInventoryCheck \/ DeleteInventoryLands

SpecRemove == InitRemove /\ [][NextRemove]_vars

(* ======================= properties of the stock writers =============== *)
\* C23: a batch is deleted only if no sale exists for it: no step removes a
\* batch that a stored sale line or a legacy sale references, and so every
\* stored sale line has its batch.
C23_DeleteOnlyUnsold ==
  /\ [](\A s \in saleItems : s.inventoryId \in DOMAIN inventory)
  /\ [][\A b \in DOMAIN inventory :
          b \notin DOMAIN inventory' =>
             /\ \A s \in saleItems : s.inventoryId # b
             /\ \A l \in sales : l.inventoryId # b]_vars


\* C29: under any interleaving of 'Initial Qty' edits, 'Current Stock' edits
\* and sale commits on a batch, 0 <= currentStock <= initialQuantity in
\* every state, and an edit never writes a batch whose stored quantities
\* differ from the ones the page had loaded (it overwrites no sale debit the
\* page has not seen).
C29_EditsSeeDebits ==
  /\ [](\A b \in DOMAIN inventory :
          /\ 0 <= inventory[b].currentStock
          /\ inventory[b].currentStock <= inventory[b].initialQuantity)
  /\ [][\A b \in DOMAIN inventory :
          (inventoryPage'.edits = inventoryPage.edits + 1 /\ inventory'[b] # inventory[b])
             => /\ inventoryPage.data[b].currentStock = inventory[b].currentStock
                /\ inventoryPage.data[b].initialQuantity = inventory[b].initialQuantity]_vars

\* C22: every batch has initialQuantity = purchaseQuantity * unitsPerPack,
\* after Receive Inventory and after any 'Initial Qty' edit, so the divisor
\* of the unit cost is the quantity recorded as received.
C22_ReceivedIsPacksTimesUnits ==
  \A b \in DOMAIN inventory :
     /\ inventory[b].initialQuantity =
           inventory[b].purchaseQuantity[1] * inventory[b].unitsPerPack[1]
     /\ inventory[b].initialQuantity > 0 =>
           IsQuotient(calculateInventoryUnitCost(inventory[b]), inventory[b].totalCost,
                      inventory[b].initialQuantity)

StockChanged(b) == inventory'[b].currentStock # inventory[b].currentStock
DebitedBy(c, b) == CommitStep(c) /\ b \in Touched(call[c].inventoryUpdates)

\* C18 as stated: once a batch exists, no operation other than the debit step
\* of a committing sale changes its currentStock.
C18_OnlyDebit ==
  [][\A b \in DOMAIN inventory : StockChanged(b) => \E c \in Calls : DebitedBy(c, b)]_vars

\* C18 (amended): once a batch exists, its currentStock is changed only by the
\* debit step of a committing sale or by a 'Current Stock' edit of the
\* Inventory page, which sets it to an entry between 0 and the initialQuantity
\* the page has loaded.
C18_DebitOrEdit ==
  [][\A b \in DOMAIN inventory :
        StockChanged(b) =>
           \/ \E c \in Calls : DebitedBy(c, b)
           \/ /\ call' = call
              /\ inventoryPage'.edits = inventoryPage.edits + 1
              /\ inventoryPage'.snack = "Current stock updated"
              /\ b \in DOMAIN inventoryPage.data
              /\ inventory'[b].currentStock \in 0 .. inventoryPage.data[b].initialQuantity]_vars

\* after a sale of b1 committed, an edit has put its stock back to what was
\* received
C18_Witness ==
  /\ \E item \in saleItems : item.inventoryId = "b1"
  /\ inventoryPage.snack = "Current stock updated"
  /\ inventory["b1"].currentStock = inventory["b1"].initialQuantity
  /\ inventory["b1"].initialQuantity = MaxStock


(* ======================= the sale commit under fair scheduling ========= *)
(* Every await of recordSaleTransaction is a request to Firestore; the SDK *)
(* settles each request, so a call that can take its next step eventually  *)
(* takes it.  Users start sales as they please.                            *)
(* ----------------------------------------------------------------------- *)
\* what the promise returned by recordSaleTransaction settles with: the
\* function is declared Promise<void> and has no return statement
Resolution(r) ==
  IF r.pc = "Committed" THEN [settled |-> "resolved", value |-> Unset, error |-> NoError]
  ELSE IF r.pc = "Aborted" THEN [settled |-> "rejected", value |-> Unset, error |-> r.error]
  ELSE [settled |-> "pending", value |-> Unset, error |-> NoError]

\* one session calls once, signed in or not, with or without a team, with
\* or without lines, while the other keeps selling single units of b1
StartLive ==
  /\ \/ \E uid \in Uids \cup {NoUid}, items \in {<<>>} \cup ListsOver(SaleLines) :
           Start("c1", uid, items, Unset, Unset)
     \/ Start("c2", "u1", <<Line("b1", 1, 2)>>, Unset, Unset)
  /\ UNCHANGED <<started, aside>>
ReturnRival == Return("c2") /\ UNCHANGED aside

SaleStep(c) == (ReadLine(c) \/ Commit(c)) /\ UNCHANGED aside

NextLive == StartLive \/ ReadLineAny \/ CommitAny \/ ReturnRival

SpecLive == Init /\ [][NextLive]_vars /\ \A c \in Calls : WF_vars(SaleStep(c))

(* ======================= properties of termination ===================== *)
Running(c) == call[c].pc \in {"Validating", "Committing"}
\* the step wrote one transaction document and one sale line per line of
\* the call, all referring to it
WroteAll(c) ==
  \E t \in transactions' \ transactions :
     /\ transactions' = transactions \cup {t}
     /\ saleItems \subseteq saleItems'
     /\ Cardinality(saleItems' \ saleItems) = Len(call[c].items)
     /\ \A item \in saleItems' \ saleItems : item.transactionId = t.id
SaleDocs == <<transactions, saleItems>>
EndsWell(c) ==
  /\ (Steps(c) /\ call'[c].pc = "Committed") => WroteAll(c)
  /\ (Steps(c) /\ call'[c].pc = "Aborted") =>
        /\ Persisted' = Persisted
        /\ call'[c].error.kind # ""
  /\ Terminal(c) => call'[c] \in {call[c], IdleCall}
  /\ (SaleDocs' # SaleDocs) => \E d \in Calls : CommitStep(d)

MaxTeamCalls == 3

\* the users who signed up, each with a profile and no team yet, and the
\* address nobody signed up with
TeamUids == {"u1", "u2", "u3"}
NoUser == "nobody"
\* the ids addDoc hands out for teams
TeamIds == {"t1", "t2"}

InitTeam ==
  /\ InitStore
  /\ users = [u \in TeamUids |-> [teamId |-> NoTeam]]
  /\ fetched = NoData
  /\ report = NoReport
  /\ salesPage = ClosedSalesPage
  /\ inventoryPage = ClosedInventoryPage
  /\ teams = [t \in {} |-> 0]
  /\ teamOp = [u \in TeamUids |-> IdleTeamOp]
  /\ teamCalls = 0
  /\ authState = Mounted

sale == <<inventory, transactions, saleItems, call, nextId, started, fetched, report,
          salesPage, inventoryPage, authState>>

\* a call returns { success, message } to the page
Returns(uid, message) ==
  teamOp' = [teamOp EXCEPT ![uid] = [IdleTeamOp EXCEPT !.kind = teamOp[uid].kind,
                                                         !.target = teamOp[uid].target,
                                                         !.message = message]]

\* createTeam: the caller owns the new team and is its one member
createTeam(uid) ==
  /\ teamOp[uid].pc = "idle"
  /\ \E t \in TeamIds \ DOMAIN teams :
       /\ teams' = (t :> [ownerUid |-> uid, members |-> {uid}]) @@ teams
       /\ teamOp' = [teamOp EXCEPT ![uid] =
                       [IdleTeamOp EXCEPT !.pc = "profile", !.kind = "create", !.teamId = t]]
  /\ UNCHANGED <<users, teamCalls, sale>>

\* createUserProfile(team.id, team.name) after createTeam returned
createUserProfile(uid) ==
  /\ teamOp[uid].pc = "profile"
  /\ users' = [users EXCEPT ![uid].teamId = teamOp[uid].teamId]
  /\ Returns(uid, "Team created successfully")
  /\ UNCHANGED <<teams, teamCalls, sale>>

\* both calls start by reading the caller's profile
CallTeam(uid, kind, target) ==
  /\ teamOp[uid].pc = "idle"
  /\ teamCalls < MaxTeamCalls
  /\ teamCalls' = teamCalls + 1
  /\ teamOp' = [teamOp EXCEPT ![uid] =
       IF users[uid].teamId = NoTeam
         THEN [IdleTeamOp EXCEPT !.kind = kind, !.target = target,
                                 !.message = "You are not assigned to a team"]
         ELSE [IdleTeamOp EXCEPT !.pc = "team", !.kind = kind, !.target = target,
                                 !.teamId = users[uid].teamId]]
  /\ UNCHANGED <<users, teams, sale>>

inviteTeamMember(uid, email) == CallTeam(uid, "invite", email)

removeTeamMember(uid, memberId) == CallTeam(uid, "remove", memberId)

\* what removeTeamMember answers to the team document it read, "" to go on
RemoveRefusal_OwnerUnchecked(uid, memberId, teamData) ==
  IF uid \notin teamData.members THEN "You must be a team member to remove members"
  ELSE IF memberId = uid THEN "You cannot remove yourself from the team"
  ELSE IF memberId \notin teamData.members THEN "User is not a member of this team"
  ELSE ""
RemoveRefusal(uid, memberId, teamData) ==
  IF uid \notin teamData.members THEN "You must be a team member to remove members"
  ELSE IF memberId = uid THEN "You cannot remove yourself from the team"
  ELSE IF memberId = teamData.ownerUid THEN "The team owner cannot be removed"
  ELSE IF memberId \notin teamData.members THEN "User is not a member of this team"
  ELSE ""

\* the team document arrives: removeTeamMember checks all it checks,
\* inviteTeamMember checks the caller and goes on to look the address up
ReadTeam(uid) ==
  LET op == teamOp[uid]
      teamData == teams[op.teamId]
      refusal == IF op.kind = "remove" THEN RemoveRefusal(uid, op.target, teamData)
                 ELSE IF uid \notin teamData.members
                        THEN "You must be a team member to invite new members"
                        ELSE ""
  IN /\ op.pc = "team"
     /\ IF op.teamId \notin DOMAIN teams THEN Returns(uid, "Team not found")
        ELSE IF refusal # "" THEN Returns(uid, refusal)
        ELSE teamOp' = [teamOp EXCEPT ![uid].existingMembers = teamData.members,
                                      ![uid].pc = IF op.kind = "remove" THEN "writeTeam"
                                                  ELSE "findUser"]
     /\ UNCHANGED <<users, teams, teamCalls, sale>>

\* the users query by email arrives
FindUser(uid) ==
  LET op == teamOp[uid]
  IN /\ op.pc = "findUser"
     /\ IF op.target \notin DOMAIN users
          THEN Returns(uid, "No user found with this email address")
        ELSE IF op.target \in op.existingMembers
          THEN Returns(uid, "This user is already a member of your team")
        ELSE IF users[op.target].teamId # NoTeam /\ users[op.target].teamId # op.teamId
          THEN Returns(uid, "This user is already a member of another team")
        ELSE teamOp' = [teamOp EXCEPT ![uid].pc = "writeTeam"]
     /\ UNCHANGED <<users, teams, teamCalls, sale>>

\* updateDoc(teamRef, { members: updatedMembers })
updatedMembers(op) ==
  IF op.kind = "remove" THEN op.existingMembers \ {op.target}
  ELSE op.existingMembers \cup {op.target}

WriteTeam(uid) ==
  LET op == teamOp[uid]
  IN /\ op.pc = "writeTeam"
     /\ teams' = [teams EXCEPT ![op.teamId].members = updatedMembers(op)]
     /\ teamOp' = [teamOp EXCEPT ![uid].pc = "writeUser"]
     /\ UNCHANGED <<users, teamCalls, sale>>

\* updateDoc(userRef, { teamId, teamName }) and the success answer
WriteUser(uid) ==
  LET op == teamOp[uid]
  IN /\ op.pc = "writeUser"
     /\ users' = [users EXCEPT ![op.target].teamId =
                    IF op.kind = "remove" THEN NoTeam ELSE op.teamId]
     /\ Returns(uid, IF op.kind = "remove" THEN "Team member removed successfully"
                     ELSE "Successfully added")
     /\ UNCHANGED <<teams, teamCalls, sale>>

CreateTeamAny == \E uid \in TeamUids : createTeam(uid)
CreateUserProfileAny == \E uid \in TeamUids : createUserProfile(uid)
InviteAny == \E uid \in TeamUids, email \in TeamUids \cup {NoUser} : inviteTeamMember(uid, email)
RemoveAny == \E uid, memberId \in TeamUids : removeTeamMember(uid, memberId)
ReadTeamAny == \E uid \in TeamUids : ReadTeam(uid)
FindUserAny == \E uid \in TeamUids : FindUser(uid)
WriteTeamAny == \E uid \in TeamUids : WriteTeam(uid)
WriteUserAny == \E uid \in TeamUids : WriteUser(uid)

NextTeam ==
  \/ CreateTeamAny
  \/ CreateUserProfileAny
  \/ InviteAny
  \/ RemoveAny
  \/ ReadTeamAny
  \/ FindUserAny
  \/ WriteTeamAny
  \/ WriteUserAny

SpecTeam == InitTeam /\ [][NextTeam]_vars

\* a removeTeamMember call of uid has just answered with this refusal
Refused(uid, message) ==
  /\ teamOp[uid].kind = "remove"
  /\ teamOp[uid].pc = "team"
  /\ teamOp'[uid].pc = "idle"
  /\ teamOp'[uid].message = message

\* a removeTeamMember call that was asked to remove the team's owner, or the
\* caller, by a member of the team
AsksForOwnerOrSelf(uid) ==
  /\ teamOp[uid].kind = "remove"
  /\ teamOp[uid].pc = "team"
  /\ teamOp[uid].teamId \in DOMAIN teams
  /\ uid \in teams[teamOp[uid].teamId].members
  /\ teamOp[uid].target \in {uid, teams[teamOp[uid].teamId].ownerUid}

\* C20: whatever createTeam, inviteTeamMember and removeTeamMember calls the
\* users make, every team's owner is in its members list; a removeTeamMember
\* call asked by a member to remove the owner or the caller answers with a
\* refusal, and that step and every later step of the call leave the team
\* and user documents as they are (the call is over: it writes nothing)
C20_OwnerStays ==
  /\ [](\A t \in DOMAIN teams : teams[t].ownerUid \in teams[t].members)
  /\ [][\A uid \in TeamUids :
          (AsksForOwnerOrSelf(uid) /\ teamOp'[uid] # teamOp[uid])
            => /\ \/ Refused(uid, "You cannot remove yourself from the team")
                  \/ Refused(uid, "The team owner cannot be removed")
               /\ UNCHANGED <<teams, users>>]_vars

\* a member who is not the owner asked for the owner's removal, in a team
\* of two or more, and was refused
C20_Witness ==
  \E uid \in TeamUids, t \in DOMAIN teams :
    /\ teamOp[uid].pc = "idle"
    /\ teamOp[uid].kind = "remove"
    /\ teamOp[uid].message = "The team owner cannot be removed"
    /\ teamOp[uid].target = teams[t].ownerUid
    /\ uid # teams[t].ownerUid
    /\ {uid, teams[t].ownerUid} \subseteq teams[t].members
    /\ users[uid].teamId = t

\* ---------------------------------------------------------------------------
\* AuthProvider and ProtectedRoute: who is signed in and what a route shows
\* ---------------------------------------------------------------------------
\* everything AuthProvider leaves alone
unauth == <<inventory, transactions, saleItems, users, call, nextId, started, fetched,
            report, salesPage, inventoryPage, teamVars>>

\* signInWithPopup: Firebase has a current user and will tell the listener
SignIn ==
  /\ authState.currentUser = NoUid
  /\ \E u \in Uids : authState' = [authState EXCEPT !.currentUser = u, !.notified = FALSE]
  /\ UNCHANGED unauth

\* signOut: fbSignOut, then the three setters
SignOut ==
  /\ authState.currentUser # NoUid
  /\ authState' = [authState EXCEPT !.currentUser = NoUid, !.notified = FALSE,
                                    !.userProfile = <<>>, !.needsOnboarding = FALSE]
  /\ UNCHANGED unauth

\* getUserProfile(user.uid) of refreshUserProfile is under way
Fetch(from, uid) == [from |-> from, uid |-> uid]

\* !profile || !profile.teamId
NeedsOnboardingFor(profile) == profile.teamId = NoTeam

\* the listener of onAuthStateChanged is called with Firebase's current user:
\* setUser(u), refreshUserProfile() of the render that subscribed it (which
\* returns at once when that render had no user), setLoading(false)
AuthStateChanged ==
  /\ ~authState.notified
  /\ LET u == authState.currentUser
     IN authState' =
          IF u = NoUid \/ authState.closureUser = NoUid
          THEN [authState EXCEPT !.notified = TRUE, !.user = u, !.userProfile = <<>>,
                                 !.needsOnboarding = FALSE, !.loading = FALSE]
          ELSE [authState EXCEPT !.notified = TRUE, !.user = u,
                                 !.fetches = @ \cup {Fetch("listener", authState.closureUser)}]
  /\ UNCHANGED unauth

\* the render after user changed: refreshUserProfile is made anew for the
\* user, the first effect subscribes the listener again, the second effect
\* calls refreshUserProfile if there is a user
RunEffects ==
  /\ authState.user # authState.closureUser
  /\ authState' = [authState EXCEPT
                     !.closureUser = authState.user,
                     !.notified = FALSE,
                     !.fetches = IF authState.user = NoUid THEN @
                                 ELSE @ \cup {Fetch("effect", authState.user)}]
  /\ UNCHANGED unauth

\* the awaited getUserProfile returns; the listener goes on to setLoading(false)
FetchReturns ==
  /\ \E f \in authState.fetches :
       authState' = [authState EXCEPT
                       !.fetches = @ \ {f},
                       !.userProfile = <<users[f.uid].teamId>>,
                       !.needsOnboarding = NeedsOnboardingFor(users[f.uid]),
                       !.loading = IF f.from = "listener" THEN FALSE ELSE @]
  /\ UNCHANGED unauth

\* the awaited getUserProfile throws
FetchFails ==
  /\ \E f \in authState.fetches :
       authState' = [authState EXCEPT
                       !.fetches = @ \ {f},
                       !.userProfile = <<>>,
                       !.needsOnboarding = TRUE,
                       !.loading = IF f.from = "listener" THEN FALSE ELSE @]
  /\ UNCHANGED unauth

\* what ProtectedRoute returns at a location
ProtectedRoute(pathname) ==
  IF authState.loading THEN "Loading..."
  ELSE IF authState.user = NoUid THEN "/login"
  ELSE IF authState.needsOnboarding /\ pathname # "/onboarding" THEN "/onboarding"
  ELSE IF ~authState.needsOnboarding /\ pathname = "/onboarding" THEN "/"
  ELSE "children"

NextAuth ==
  \/ SignIn
  \/ SignOut
  \/ AuthStateChanged
  \/ RunEffects
  \/ FetchReturns
  \/ FetchFails

SpecAuth == Init /\ [][NextAuth]_vars

\* C24: whenever loading is false and the user that is set has a profile
\* without teamId, needsOnboarding is true and ProtectedRoute sends every
\* location other than /onboarding there.
C24_OnboardingFirst ==
  (/\ ~authState.loading
   /\ authState.user # NoUid
   /\ users[authState.user].teamId = NoTeam)
    => /\ authState.needsOnboarding
       /\ ProtectedRoute("/") = "/onboarding"

\* ---------------------------------------------------------------------------
\* a member sells while the owner removes them from the team
\* ---------------------------------------------------------------------------
\* team t1 of owner u2 with the member u1
InitRevoke ==
  /\ InitStore
  /\ users = [u \in Uids |-> [teamId |-> "t1"]]
  /\ fetched = NoData
  /\ report = NoReport
  /\ salesPage = ClosedSalesPage
  /\ inventoryPage = ClosedInventoryPage
  /\ teams = ("t1" :> [ownerUid |-> "u2", members |-> Uids])
  /\ teamOp = [u \in Uids |-> IdleTeamOp]
  /\ teamCalls = 0
  /\ authState = Mounted

\* the owner's Team page: removeTeamMember('u1') and its awaits
OwnerRemoves == removeTeamMember("u2", "u1")
OwnerReadsTeam == ReadTeam("u2")
OwnerWritesTeam == WriteTeam("u2")
OwnerWritesUser == WriteUser("u2")

NextRevoke ==
  \/ StartPageSale \/ ReadLineAny \/ CommitAny \/ ReturnAny
  \/ OwnerRemoves \/ OwnerReadsTeam \/ OwnerWritesTeam \/ OwnerWritesUser

SpecRevoke == InitRevoke /\ [][NextRevoke]_vars

\* C26: at the step that commits a sale the caller's profile still has the
\* team of every batch the sale debits; a member removed from the team after
\* the call read the profile does not complete the sale.
C26_MemberAtCommit ==
  [][\A c \in Calls :
       CommitStep(c) =>
          \A b \in Touched(call[c].inventoryUpdates) :
             users[call[c].uid].teamId = inventory[b].teamId]_vars

\* ---------------------------------------------------------------------------
\* membership as the teams collection and as the profiles record it
\* ---------------------------------------------------------------------------
TeamsOf(u) == {t \in DOMAIN teams : u \in teams[t].members}
NoTeamCallUnderWay == \A u \in DOMAIN teamOp : teamOp[u].pc = "idle"

\* C30: after any sequence and any interleaving of createTeam,
\* inviteTeamMember and removeTeamMember calls that have completed, every
\* user is in the members list of at most one team, and a user's profile
\* names team T exactly when the user is in T's members list.
C30_OneTeamPerUser ==
  NoTeamCallUnderWay =>
     \A u \in DOMAIN users :
        /\ Cardinality(TeamsOf(u)) <= 1
        /\ \A t \in DOMAIN teams : users[u].teamId = t <=> u \in teams[t].members

====
